---------------------------- MODULE Spec2Model ----------------------------
(***************************************************************************)
(* Ethereum Frame Actions (packages/frames.js/src/ethereum/index.ts).      *)
(*                                                                         *)
(* A wallet attests a proxy key (SignedPublicKeyBundle), the proxy key     *)
(* signs frame actions (FrameActionBody), and getEthereumFrameMessage      *)
(* re-validates both signatures of an inbound payload.                     *)
(*                                                                         *)
(* The typed-data collaborator (viem signTypedData / verifyTypedData) is   *)
(* modelled as an ideal EIP-712 scheme: a signature is the pair of the     *)
(* signing account and the struct hash of the message, the struct hash is  *)
(* the primary type, the domain and the encoded values of the fields the   *)
(* type lists.  A collaborator call may also fail (throw).                 *)
(***************************************************************************)
EXTENDS Integers, Sequences, FiniteSets, TLC

----------------------------------------------------------------------------
(* Bounds of the model *)

\* most events of one behaviour: signatures the signers have issued plus
\* fields of the payload in flight that were rewritten
MaxEvents == 3
\* the same, in the behaviours where only the signature is rewritten
MaxSignatureEvents == 4
\* the same, in the behaviours where payloads are verified again and again
MaxReplayEvents == 3
\* the same, in the behaviours where one key signs both schemas
MaxCrossEvents == 3
\* the same, in the behaviours where a server asks what it has received
MaxGuardEvents == 1

----------------------------------------------------------------------------
(* Values *)

\* a JS value that is undefined (an omitted optional field)
Absent == "undefined"

zeroHash == "0x0000000000000000000000000000000000000000000000000000000000000000"
zeroAddress == "0x0000000000000000000000000000000000000000"

\* one transaction hash in two hex spellings of the same 32 bytes
TxLower == "0xabababababababababababababababababababababababababababababababab"
TxUpper == "0xABABABABABABABABABABABABABABABABABABABABABABABABABABABABABABABAB"
\* one address, all lower case and in its EIP-55 checksum spelling
AddrLower == "0xab5801a7d398351b8be11c439e05c5b3259aec9b"
AddrChecksum == "0xAb5801a7D398351b8bE11C439e05C5B3259aeC9B"

\* accounts: two wallets and the accounts of the private keys
WalletW1 == "0x1111111111111111111111111111111111111111"
WalletW2 == "0x2222222222222222222222222222222222222222"
Wallets == {WalletW1, WalletW2}

\* key1 is the key generatePrivateKey draws, key2 a key pair the caller of
\* signPublicKeyBundle manages itself
PrivateKeys == {"key1", "key2"}
GeneratedKeys == {"key1"}
privateKeyToAccount(privateKey) ==
    IF privateKey = "key1" THEN "0xaaaaaaaaaaaaaaaaaaaaaaaaaaaaaaaaaaaaaaaa"
    ELSE "0xbbbbbbbbbbbbbbbbbbbbbbbbbbbbbbbbbbbbbbbb"
ProxyAccounts == {privateKeyToAccount(k) : k \in PrivateKeys}
Accounts == Wallets \cup ProxyAccounts

\* a WalletClient is its account; NoAccount is a client without one
NoAccount == "no account"
WalletClients == Accounts \cup {NoAccount}

\* readings of Date.now(): milliseconds since the epoch (2 January 1970)
DateNow == {86400000, 86401500}

Urls == {"https://x", "https://y"}
ButtonIndexes == {1, 2}
UnixTimestamps == {1000, 2000}
Texts == {Absent, "", "hello"}
TransactionIds == {Absent, zeroHash, TxLower, TxUpper}
Addresses == {Absent, zeroAddress, AddrLower, AddrChecksum}

\* the optional fields of FrameActionBody, and the value ?? puts in for
\* an omitted one
OptionalFields == {"inputText", "state", "transactionId", "address"}

Sentinel(f) ==
    CASE f = "inputText" -> ""
      [] f = "state" -> ""
      [] f = "transactionId" -> zeroHash
      [] f = "address" -> zeroAddress

\* what a payload on the wire may carry where the client wrote "eth@v1" and
\* "0x", and properties of untrustedData that the type does not declare
ClientProtocols == {"eth@v1", "eth@v2"}
MessageBytes == {"0x", "0xff"}
ExtraFields == {"fid", "isValid"}
ExtraValue(name) == IF name = "isValid" THEN TRUE ELSE 7

\* what a caller may hand to isEthereumFrameActionPayload in place of a
\* property of the body: nothing ("missing"), or one of these values
Missing == [kind |-> "missing", value |-> ""]
ProtocolValues ==
    {Missing,
     [kind |-> "string", value |-> "eth@v1"],
     [kind |-> "string", value |-> "eth@v2"],
     [kind |-> "string", value |-> ""],
     [kind |-> "number", value |-> "1"],
     [kind |-> "null", value |-> ""]}
DataValues ==
    {Missing,
     [kind |-> "object", value |-> <<>>],
     [kind |-> "array", value |-> <<>>],
     [kind |-> "string", value |-> "0x"],
     [kind |-> "undefined", value |-> ""],
     [kind |-> "null", value |-> ""]}

\* the object with the properties given, those "missing" left out
ObjectWith(clientProtocol, untrustedData, trustedData) ==
    LET given == [clientProtocol |-> clientProtocol,
                  untrustedData |-> untrustedData,
                  trustedData |-> trustedData]
    IN  [kind |-> "object",
         value |-> [name \in {n \in DOMAIN given : given[n] # Missing} |->
                        given[name]]]

GuardInputs ==
    {[kind |-> "null", value |-> ""],
     [kind |-> "undefined", value |-> ""],
     [kind |-> "string", value |-> "eth@v1"],
     [kind |-> "number", value |-> "1"]}
    \cup {ObjectWith(c, u, t) :
              c \in ProtocolValues, u \in DataValues, t \in DataValues}

BodyFields ==
    {"url", "buttonIndex", "unixTimestamp", "inputText", "state",
     "transactionId", "address"}

FieldDomain(f) ==
    CASE f = "url" -> Urls
      [] f = "buttonIndex" -> ButtonIndexes
      [] f = "unixTimestamp" -> UnixTimestamps
      [] f = "inputText" -> Texts
      [] f = "state" -> Texts
      [] f = "transactionId" -> TransactionIds
      [] f = "address" -> Addresses

\* the FrameActionBody values callers pass to the signing functions
BodyInputs ==
    { [url |-> "https://x", buttonIndex |-> 2, unixTimestamp |-> 1000,
       inputText |-> o[1], state |-> o[1],
       transactionId |-> o[2], address |-> o[3]] :
         o \in {<<Absent, Absent, Absent>>,
                <<"hello", TxLower, AddrLower>>,
                <<"", zeroHash, zeroAddress>>} }

\* the PublicKeyBundle values callers pass to signPublicKeyBundle
BundleInputs ==
    {[timestamp |-> 86400000, proxy_key_bytes |-> privateKeyToAccount("key2")]}

----------------------------------------------------------------------------
(* The typed-data collaborator *)

domain == [name |-> "Ethereum Frame Action", version |-> "1"]

EIP712TypesV1 ==
    [FrameActionBody |->
        << [name |-> "frame_url", type |-> "string"],
           [name |-> "button_index", type |-> "uint32"],
           [name |-> "unix_timestamp", type |-> "uint64"],
           [name |-> "input_text", type |-> "string"],
           [name |-> "state", type |-> "string"],
           [name |-> "transaction_id", type |-> "bytes32"],
           [name |-> "address", type |-> "address"] >>,
     PublicKeyBundle |->
        << [name |-> "timestamp", type |-> "uint64"],
           [name |-> "proxy_key_bytes", type |-> "address"] >>]

\* numeric message values: a JS number, or the bigint BigInt() makes of it
Number(n) == <<"number", n>>
BigInt(n) == <<"bigint", n>>

\* the bytes a hex string denotes (hex digits are case-insensitive)
HexToBytes(hex) ==
    CASE hex = TxUpper -> TxLower
      [] hex = AddrChecksum -> AddrLower
      [] OTHER -> hex

\* EIP-712 encoding of one field value
EncodeField(type, value) ==
    CASE type \in {"uint32", "uint64"} -> value[2]
      [] type \in {"bytes32", "address"} -> HexToBytes(value)
      [] OTHER -> value

\* EIP-712 digest: only the fields the primary type lists are encoded
HashTypedData(params) ==
    LET fields == params.types[params.primaryType]
    IN  [primaryType |-> params.primaryType,
         domain |-> params.domain,
         data |-> [i \in 1..Len(fields) |->
                     EncodeField(fields[i].type, params.message[fields[i].name])]]

\* the signature `account` produces over the typed data
SignTypedData(account, params) ==
    [signer |-> account, hash |-> HashTypedData(params)]

\* a byte string no account ever produced as a signature
BadSignature ==
    [signer |-> "0x",
     hash |-> [primaryType |-> "none", domain |-> domain, data |-> <<>>]]

\* the boolean verifyTypedData answers when it answers
VerifyTypedData(params) ==
    /\ params.signature.signer = HexToBytes(params.address)
    /\ params.signature.hash = HashTypedData(params)

----------------------------------------------------------------------------
(* The pure parts of index.ts *)

\* a ?? b
Nullish(a, b) == IF a = Absent THEN b ELSE a

\* !walletClient.account
HasNoAccount(walletClient) == walletClient = NoAccount

\* the typed data signPublicKeyBundle asks the wallet to sign
PublicKeyBundleSignParams(publicKeyBundle) ==
    [primaryType |-> "PublicKeyBundle",
     domain |-> domain,
     types |-> EIP712TypesV1,
     message |-> [timestamp |-> Number(publicKeyBundle.timestamp),
                  proxy_key_bytes |-> publicKeyBundle.proxy_key_bytes]]

\* a slip: the verifier takes the wallet's address for the proxy key
VerifyParamsProxyFromWallet(signedPublicKeyBundle) ==
    [primaryType |-> "PublicKeyBundle",
     domain |-> domain,
     types |-> EIP712TypesV1,
     message |->
        [timestamp |-> Number(signedPublicKeyBundle.public_key_bundle.timestamp),
         wallet_address |-> signedPublicKeyBundle.wallet_address,
         proxy_key_bytes |-> signedPublicKeyBundle.wallet_address],
     address |-> signedPublicKeyBundle.wallet_address,
     signature |-> signedPublicKeyBundle.signature]

\* the typed data verifyPublicKeyBundle has verified
PublicKeyBundleVerifyParams(signedPublicKeyBundle) ==
    [primaryType |-> "PublicKeyBundle",
     domain |-> domain,
     types |-> EIP712TypesV1,
     message |->
        [timestamp |-> Number(signedPublicKeyBundle.public_key_bundle.timestamp),
         wallet_address |-> signedPublicKeyBundle.wallet_address,
         proxy_key_bytes |->
            signedPublicKeyBundle.public_key_bundle.proxy_key_bytes],
     address |-> signedPublicKeyBundle.wallet_address,
     signature |-> signedPublicKeyBundle.signature]

\* the typed data signFrameActionBody asks the proxy key to sign
FrameActionBodySignParams(body) ==
    [primaryType |-> "FrameActionBody",
     domain |-> domain,
     types |-> EIP712TypesV1,
     message |-> [frame_url |-> body.url,
                  button_index |-> Number(body.buttonIndex),
                  unix_timestamp |-> BigInt(body.unixTimestamp),
                  input_text |-> Nullish(body.inputText, ""),
                  state |-> Nullish(body.state, ""),
                  transaction_id |-> Nullish(body.transactionId, zeroHash),
                  address |-> Nullish(body.address, zeroAddress)]]

\* a slip: state is sent to the verifier as it came, without ?? ""
VerifyMessageStateAsIs(untrustedData) ==
    [frame_url |-> untrustedData.url,
     button_index |-> Number(untrustedData.buttonIndex),
     unix_timestamp |-> Number(untrustedData.unixTimestamp),
     input_text |-> Nullish(untrustedData.inputText, ""),
     state |-> untrustedData.state,
     transaction_id |-> Nullish(untrustedData.transactionId, zeroHash),
     address |-> Nullish(untrustedData.address, zeroAddress)]

\* a slip: state is filled from inputText
VerifyMessageStateFromInput(untrustedData) ==
    [frame_url |-> untrustedData.url,
     button_index |-> Number(untrustedData.buttonIndex),
     unix_timestamp |-> Number(untrustedData.unixTimestamp),
     input_text |-> Nullish(untrustedData.inputText, ""),
     state |-> Nullish(untrustedData.inputText, ""),
     transaction_id |-> Nullish(untrustedData.transactionId, zeroHash),
     address |-> Nullish(untrustedData.address, zeroAddress)]

\* a slip: transaction_id is always the zero hash
VerifyMessageNoTransaction(untrustedData) ==
    [frame_url |-> untrustedData.url,
     button_index |-> Number(untrustedData.buttonIndex),
     unix_timestamp |-> Number(untrustedData.unixTimestamp),
     input_text |-> Nullish(untrustedData.inputText, ""),
     state |-> Nullish(untrustedData.state, ""),
     transaction_id |-> zeroHash,
     address |-> Nullish(untrustedData.address, zeroAddress)]

\* a slip: inputText is sent to the verifier as it came, without ?? ""
VerifyMessageInputTextAsIs(untrustedData) ==
    [frame_url |-> untrustedData.url,
     button_index |-> Number(untrustedData.buttonIndex),
     unix_timestamp |-> Number(untrustedData.unixTimestamp),
     input_text |-> untrustedData.inputText,
     state |-> Nullish(untrustedData.state, ""),
     transaction_id |-> Nullish(untrustedData.transactionId, zeroHash),
     address |-> Nullish(untrustedData.address, zeroAddress)]

\* the message getEthereumFrameMessage rebuilds from untrustedData
FrameActionBodyVerifyMessage(untrustedData) ==
    [frame_url |-> untrustedData.url,
     button_index |-> Number(untrustedData.buttonIndex),
     unix_timestamp |-> Number(untrustedData.unixTimestamp),
     input_text |-> Nullish(untrustedData.inputText, ""),
     state |-> Nullish(untrustedData.state, ""),
     transaction_id |-> Nullish(untrustedData.transactionId, zeroHash),
     address |-> Nullish(untrustedData.address, zeroAddress)]

\* the typed data getEthereumFrameMessage has verified
FrameActionBodyVerifyParams(untrustedData) ==
    [primaryType |-> "FrameActionBody",
     domain |-> domain,
     types |-> EIP712TypesV1,
     message |-> FrameActionBodyVerifyMessage(untrustedData),
     address |->
        untrustedData.signedPublicKeyBundle.public_key_bundle.proxy_key_bytes,
     signature |-> untrustedData.signature]

\* the SignedPublicKeyBundle signPublicKeyBundle returns
SignedPublicKeyBundleOf(publicKeyBundle, walletClient) ==
    [public_key_bundle |-> publicKeyBundle,
     wallet_address |-> walletClient,
     signature |->
        SignTypedData(walletClient, PublicKeyBundleSignParams(publicKeyBundle))]

\* the PublicKeyBundle createSignedPublicKeyBundle builds
NewPublicKeyBundle(now, privateKey) ==
    [timestamp |-> now, proxy_key_bytes |-> privateKeyToAccount(privateKey)]

\* a slip: the payload names another version of the protocol
RequestOfNextProtocol(body, signature, signedPublicKeyBundle) ==
    [clientProtocol |-> "eth@v2",
     untrustedData |->
        [url |-> body.url,
         buttonIndex |-> body.buttonIndex,
         unixTimestamp |-> body.unixTimestamp,
         inputText |-> body.inputText,
         state |-> body.state,
         transactionId |-> body.transactionId,
         address |-> body.address,
         signature |-> signature,
         signedPublicKeyBundle |-> signedPublicKeyBundle],
     trustedData |-> [messageBytes |-> "0x"]]

\* the payload createEthereumFrameRequest returns
EthereumFrameRequestOf(body, signature, signedPublicKeyBundle) ==
    [clientProtocol |-> "eth@v1",
     untrustedData |->
        [url |-> body.url,
         buttonIndex |-> body.buttonIndex,
         unixTimestamp |-> body.unixTimestamp,
         inputText |-> body.inputText,
         state |-> body.state,
         transactionId |-> body.transactionId,
         address |-> body.address,
         signature |-> signature,
         signedPublicKeyBundle |-> signedPublicKeyBundle],
     trustedData |-> [messageBytes |-> "0x"]]

\* values of type unknown, as isEthereumFrameActionPayload looks at them:
\* what they are, and for a string its characters, for an object its
\* properties
JSValue(kind, value) == [kind |-> kind, value |-> value]
JSNull == JSValue("null", "")
JSUndefined == JSValue("undefined", "")
JSString(s) == JSValue("string", s)
JSNumber == JSValue("number", "1")
JSObject(properties) == JSValue("object", properties)
JSArray == JSValue("array", <<>>)

\* typeof v
TypeOf(v) == IF v.kind \in {"null", "object", "array"} THEN "object" ELSE v.kind

\* name in v, for an object v
In(name, v) == name \in DOMAIN v.value

\* the payload createEthereumFrameRequest returned, as a value of type unknown
AsUnknown(request) ==
    JSObject([clientProtocol |-> JSString(request.clientProtocol),
              untrustedData |-> JSObject(request.untrustedData),
              trustedData |-> JSObject(request.trustedData)])

\* a slip: every eth@ protocol passes
IsPayloadAnyProtocol(body) ==
    IF TypeOf(body) # "object" \/ body.kind = "null"
    THEN FALSE
    ELSE IF \/ ~In("clientProtocol", body)
            \/ ~In("untrustedData", body)
            \/ ~In("trustedData", body)
    THEN FALSE
    ELSE LET clientProtocol == body.value.clientProtocol
             untrustedData == body.value.untrustedData
             trustedData == body.value.trustedData
         IN  /\ TypeOf(clientProtocol) = "string"
             /\ TypeOf(untrustedData) = "object"
             /\ untrustedData.kind # "null"
             /\ TypeOf(trustedData) = "object"
             /\ trustedData.kind # "null"

isEthereumFrameActionPayload(body) ==
    IF TypeOf(body) # "object" \/ body.kind = "null"
    THEN FALSE
    ELSE IF \/ ~In("clientProtocol", body)
            \/ ~In("untrustedData", body)
            \/ ~In("trustedData", body)
    THEN FALSE
    ELSE LET clientProtocol == body.value.clientProtocol
             untrustedData == body.value.untrustedData
             trustedData == body.value.trustedData
         IN  IF clientProtocol # JSString("eth@v1")
             THEN FALSE
             ELSE /\ TypeOf(clientProtocol) = "string"
                  /\ TypeOf(untrustedData) = "object"
                  /\ untrustedData.kind # "null"
                  /\ TypeOf(trustedData) = "object"
                  /\ trustedData.kind # "null"

\* the client the action signature is verified on: publicClient ?? createPublicClient()
ActionClient(publicClient) == Nullish(publicClient, "created by getEthereumFrameMessage")

\* the client the delegation is verified on
BundleClient(publicClient) == "created by verifyPublicKeyBundle"

\* a slip: || for &&
IsValidEither(frameDataValid, signerValid) == frameDataValid \/ signerValid

\* a slip: verifyPublicKeyBundle is not awaited, its promise is truthy
IsValidPromise(frameDataValid, signerValid) == frameDataValid

\* a slip: the action check is not part of the conjunction
IsValidSignerOnly(frameDataValid, signerValid) == signerValid

\* isFrameDataValid && isSignerValid
IsValid(frameDataValid, signerValid) == frameDataValid /\ signerValid

\* a slip: only transactionId is mapped back to undefined
FrameMessageAddressAsIs(untrustedData, isValid) ==
    [isValid |-> isValid,
     requesterWalletAddress |->
        untrustedData.signedPublicKeyBundle.wallet_address]
    @@ [untrustedData EXCEPT
            !.transactionId = IF @ = zeroHash THEN Absent ELSE @]

\* a slip: only the properties FrameActionBody declares are taken over
FrameMessageDeclaredOnly(untrustedData, isValid) ==
    [url |-> untrustedData.url,
     buttonIndex |-> untrustedData.buttonIndex,
     unixTimestamp |-> untrustedData.unixTimestamp,
     inputText |-> untrustedData.inputText,
     state |-> untrustedData.state,
     signature |-> untrustedData.signature,
     signedPublicKeyBundle |-> untrustedData.signedPublicKeyBundle,
     transactionId |-> IF untrustedData.transactionId = zeroHash
                       THEN Absent ELSE untrustedData.transactionId,
     address |-> IF untrustedData.address = zeroAddress
                 THEN Absent ELSE untrustedData.address,
     isValid |-> isValid,
     requesterWalletAddress |->
        untrustedData.signedPublicKeyBundle.wallet_address]

\* the object getEthereumFrameMessage returns: the properties of
\* untrustedData spread first, then the four the function sets (of two
\* properties of one name the later one stays; in f @@ g the value of f does)
FrameMessageOf(untrustedData, isValid) ==
    [isValid |-> isValid,
     requesterWalletAddress |->
        untrustedData.signedPublicKeyBundle.wallet_address]
    @@ [untrustedData EXCEPT
            !.transactionId = IF @ = zeroHash THEN Absent ELSE @,
            !.address = IF @ = zeroAddress THEN Absent ELSE @]

----------------------------------------------------------------------------
(* State *)

VARIABLES
    signed,            \* the signTypedData calls that returned a signature
    held,              \* <<the SignedPublicKeyBundle the client holds>>, or <<>>
    wire,              \* <<the payload in flight to the server>>, or <<>>
    sent,              \* <<the payload as createEthereumFrameRequest returned it>>
    tampers,           \* fields of the payload in flight rewritten so far
    lastCall,          \* the call that ended last, and how it ended
    pc,                \* where the running getEthereumFrameMessage is
    publicClient,      \* its publicClient argument
    calls,             \* the verifyTypedData calls it has issued, in order
    isFrameDataValid,  \* its local of that name, once assigned
    isSignerValid,     \* its local of that name, once assigned
    result,            \* <<the object it returned>>, or <<>>
    kept,              \* <<a payload and the object returned for it>>, or <<>>
    guard              \* <<the last isEthereumFrameActionPayload call>>, or <<>>

vars ==
    <<signed, held, wire, sent, tampers, lastCall, pc, publicClient, calls,
      isFrameDataValid, isSignerValid, result, kept, guard>>

signerVars == <<signed, held, wire, sent, tampers>>
verifierVars ==
    <<pc, publicClient, calls, isFrameDataValid, isSignerValid, result>>
callerVars == <<kept, guard>>

Call(name, account, outcome, keyGenerated, signInvoked) ==
    [name |-> name, account |-> account, outcome |-> outcome,
     keyGenerated |-> keyGenerated, signInvoked |-> signInvoked]

NoCall == Call("none", NoAccount, "none", FALSE, FALSE)

\* one signTypedData call that returned: who signed what
Signing(account, typedData) ==
    [account |-> account, typedData |-> typedData,
     signature |-> SignTypedData(account, typedData)]

\* the signatures that exist
Signatures == {s.signature : s \in signed}

Init ==
    /\ signed = {}
    /\ held = <<>>
    /\ wire = <<>>
    /\ sent = <<>>
    /\ tampers = 0
    /\ lastCall = NoCall
    /\ pc = "idle"
    /\ publicClient = Absent
    /\ calls = <<>>
    /\ isFrameDataValid = <<>>
    /\ isSignerValid = <<>>
    /\ result = <<>>
    /\ kept = <<>>
    /\ guard = <<>>

Events == Cardinality(signed) + tampers

\* signers and payload rewriting are left out while a verification runs
\* (they share no state with it)
MaySign == pc = "idle"

----------------------------------------------------------------------------
(* The signing side *)

\* a slip: createSignedPublicKeyBundle leaves the check to signPublicKeyBundle
CreateUnguarded(walletClient) == FALSE

\* the guard that opens createSignedPublicKeyBundle
CreateHasNoAccount(walletClient) == HasNoAccount(walletClient)

\* what createSignedPublicKeyBundle returns, with the wallet client it was
\* called with; privateKey is "unknown" for a bundle signPublicKeyBundle
\* returned to a caller who manages the key pair
Delegation(signedPublicKeyBundle, privateKey, walletClient) ==
    [signedPublicKeyBundle |-> signedPublicKeyBundle,
     privateKey |-> privateKey,
     walletClient |-> walletClient]

\* the body of signPublicKeyBundle(publicKeyBundle, walletClient), entered
\* as `name` with `privateKey` generated before ("unknown": none)
SignBundleBody(name, publicKeyBundle, walletClient, privateKey) ==
    IF HasNoAccount(walletClient)
    THEN /\ lastCall' = Call(name, walletClient, "no account",
                             privateKey # "unknown", FALSE)
         /\ UNCHANGED signerVars
    ELSE \/ \* signTypedData returns
            /\ signed' = signed \cup
                  {Signing(walletClient,
                           PublicKeyBundleSignParams(publicKeyBundle))}
            /\ held' = <<Delegation(
                           SignedPublicKeyBundleOf(publicKeyBundle, walletClient),
                           privateKey, walletClient)>>
            /\ lastCall' = Call(name, walletClient, "returned",
                                privateKey # "unknown", TRUE)
            /\ UNCHANGED <<wire, sent, tampers>>
         \/ \* signTypedData fails
            /\ lastCall' = Call(name, walletClient, "signer failed",
                                privateKey # "unknown", TRUE)
            /\ UNCHANGED signerVars

signPublicKeyBundle(publicKeyBundle, walletClient) ==
    /\ MaySign
    /\ SignBundleBody("signPublicKeyBundle", publicKeyBundle, walletClient,
                      "unknown")
    /\ UNCHANGED verifierVars
    /\ UNCHANGED callerVars

createSignedPublicKeyBundle(walletClient, privateKey, now) ==
    /\ MaySign
    /\ IF CreateHasNoAccount(walletClient)
       THEN /\ lastCall' = Call("createSignedPublicKeyBundle", walletClient,
                                "no account", FALSE, FALSE)
            /\ UNCHANGED signerVars
       ELSE SignBundleBody("createSignedPublicKeyBundle",
                           NewPublicKeyBundle(now, privateKey),
                           walletClient, privateKey)
    /\ UNCHANGED verifierVars
    /\ UNCHANGED callerVars

\* the body of signFrameActionBody(body, proxyWalletClient), entered as
\* `name`; createEthereumFrameRequest passes in `delegation` the bundle it
\* wraps with the signature
SignBodyBody(name, body, proxyWalletClient, delegation) ==
    IF HasNoAccount(proxyWalletClient)
    THEN /\ lastCall' = Call(name, proxyWalletClient, "no account", FALSE, FALSE)
         /\ UNCHANGED signerVars
    ELSE \/ \* signTypedData returns
            LET signature ==
                    SignTypedData(proxyWalletClient,
                                  FrameActionBodySignParams(body))
            IN  /\ signed' = signed \cup
                      {Signing(proxyWalletClient,
                               FrameActionBodySignParams(body))}
                /\ lastCall' = Call(name, proxyWalletClient, "returned",
                                    FALSE, TRUE)
                /\ IF delegation = <<>>
                   THEN UNCHANGED <<wire, sent, tampers>>
                   ELSE LET request ==
                                EthereumFrameRequestOf(
                                    body, signature,
                                    delegation[1].signedPublicKeyBundle)
                        IN  /\ wire' = <<request>>
                            /\ sent' = <<[request |-> request,
                                          body |-> body,
                                          proxyWalletClient |-> proxyWalletClient,
                                          delegation |-> delegation[1]]>>
                            /\ tampers' = 0
                /\ UNCHANGED held
         \/ \* signTypedData fails
            /\ lastCall' = Call(name, proxyWalletClient, "signer failed",
                                FALSE, TRUE)
            /\ UNCHANGED signerVars

signFrameActionBody(body, proxyWalletClient) ==
    /\ MaySign
    /\ SignBodyBody("signFrameActionBody", body, proxyWalletClient, <<>>)
    /\ UNCHANGED verifierVars
    /\ UNCHANGED callerVars

\* createEthereumFrameRequest(body, proxyWalletClient, signedPublicKeyBundle)
\* with the bundle of `delegation`
createEthereumFrameRequestWith(body, proxyWalletClient, delegation) ==
    /\ MaySign
    /\ SignBodyBody("createEthereumFrameRequest", body, proxyWalletClient,
                    <<delegation>>)
    /\ UNCHANGED verifierVars
    /\ UNCHANGED callerVars

\* the client passes the bundle it holds
createEthereumFrameRequest(body, proxyWalletClient) ==
    /\ held # <<>>
    /\ createEthereumFrameRequestWith(body, proxyWalletClient, held[1])

----------------------------------------------------------------------------
(* The payload in flight *)

MayTamper == pc = "idle" /\ wire # <<>>

\* the payload in flight becomes `payload`
Rewritten(payload) ==
    /\ wire' = <<payload>>
    /\ tampers' = tampers + 1
    /\ lastCall' = Call("tamper", NoAccount, "returned", FALSE, FALSE)
    /\ UNCHANGED <<signed, held, sent>>
    /\ UNCHANGED verifierVars
    /\ UNCHANGED callerVars

Tampered(untrustedData) ==
    Rewritten([wire[1] EXCEPT !.untrustedData = untrustedData])

\* one of the seven body fields is rewritten
TamperBody(f, v) ==
    /\ MayTamper
    /\ v # wire[1].untrustedData[f]
    /\ Tampered([wire[1].untrustedData EXCEPT ![f] = v])

\* untrustedData.signature is replaced
TamperSignature(signature) ==
    /\ MayTamper
    /\ signature # wire[1].untrustedData.signature
    /\ Tampered([wire[1].untrustedData EXCEPT !.signature = signature])

\* a field of untrustedData.signedPublicKeyBundle is rewritten
TamperBundle(signedPublicKeyBundle) ==
    /\ MayTamper
    /\ LET now == wire[1].untrustedData.signedPublicKeyBundle
           differ ==
               {f \in {"wallet_address", "signature", "public_key_bundle"} :
                    signedPublicKeyBundle[f] # now[f]}
       IN  /\ Cardinality(differ) = 1
           /\ differ = {"public_key_bundle"} =>
                 \/ signedPublicKeyBundle.public_key_bundle.timestamp =
                        now.public_key_bundle.timestamp
                 \/ signedPublicKeyBundle.public_key_bundle.proxy_key_bytes =
                        now.public_key_bundle.proxy_key_bytes
    /\ Tampered([wire[1].untrustedData EXCEPT
                    !.signedPublicKeyBundle = signedPublicKeyBundle])

\* an optional body field goes from omitted to the value ?? puts in for it,
\* or back
TamperSentinel(f) ==
    /\ MayTamper
    /\ wire[1].untrustedData[f] \in {Absent, Sentinel(f)}
    /\ Tampered([wire[1].untrustedData EXCEPT
                    ![f] = IF @ = Absent THEN Sentinel(f) ELSE Absent])

\* clientProtocol is rewritten
TamperProtocol(clientProtocol) ==
    /\ MayTamper
    /\ clientProtocol # wire[1].clientProtocol
    /\ Rewritten([wire[1] EXCEPT !.clientProtocol = clientProtocol])

\* trustedData.messageBytes is rewritten
TamperTrustedData(messageBytes) ==
    /\ MayTamper
    /\ messageBytes # wire[1].trustedData.messageBytes
    /\ Rewritten([wire[1] EXCEPT !.trustedData.messageBytes = messageBytes])

\* untrustedData gets a property that FrameActionBody does not declare
TamperExtra(name) ==
    /\ MayTamper
    /\ name \notin DOMAIN wire[1].untrustedData
    /\ Tampered(wire[1].untrustedData @@ (name :> ExtraValue(name)))

\* the bundles an adversary can write down
ForgedBundles ==
    [public_key_bundle : [timestamp : DateNow, proxy_key_bytes : ProxyAccounts],
     wallet_address : Wallets,
     signature : Signatures \cup {BadSignature}]

----------------------------------------------------------------------------
(* getEthereumFrameMessage(body, publicClient) *)

PublicClients == {Absent, "supplied"}

\* a verifyTypedData call: the client it was issued on, its parameters, and
\* how it ended ("pending", "true", "false", "threw")
VerifyCall(client, typedData, answer) ==
    [client |-> client, typedData |-> typedData, answer |-> answer]

Answer(b) == IF b THEN "true" ELSE "false"

\* entry to the first await: the action signature check is issued
getEthereumFrameMessage(client) ==
    /\ pc = "idle"
    /\ wire # <<>>
    /\ pc' = "action check"
    /\ publicClient' = client
    /\ calls' = <<VerifyCall(ActionClient(client),
                             FrameActionBodyVerifyParams(wire[1].untrustedData),
                             "pending")>>
    /\ isFrameDataValid' = <<>>
    /\ isSignerValid' = <<>>
    /\ result' = <<>>
    /\ lastCall' = Call("getEthereumFrameMessage", NoAccount, "pending",
                        FALSE, FALSE)
    /\ UNCHANGED signerVars
    /\ UNCHANGED callerVars

\* a slip: a rejected verifyTypedData call is caught and taken for "invalid"
RejectedAsInvalid ==
    /\ pc' = "returned"
    /\ result' = <<FrameMessageOf(wire[1].untrustedData, FALSE)>>
    /\ lastCall' = Call("getEthereumFrameMessage", NoAccount, "returned",
                        FALSE, FALSE)
    /\ UNCHANGED <<isFrameDataValid, isSignerValid>>

\* an awaited verifyTypedData call rejects: nothing catches it, the
\* promise of getEthereumFrameMessage rejects with it
Rejected ==
    /\ pc' = "failed"
    /\ lastCall' = Call("getEthereumFrameMessage", NoAccount, "verifier failed",
                        FALSE, FALSE)
    /\ UNCHANGED <<isFrameDataValid, isSignerValid, result>>

\* a slip: isFrameDataValid && (await verifyPublicKeyBundle(...)), the
\* delegation check is left out when the action check says false
ActionCheckedShortCircuit ==
    /\ pc = "action check"
    /\ \/ LET answer == VerifyTypedData(calls[1].typedData)
          IN  /\ isFrameDataValid' = <<answer>>
              /\ IF answer
                 THEN /\ calls' =
                            <<[calls[1] EXCEPT !.answer = Answer(answer)],
                              VerifyCall(BundleClient(publicClient),
                                         PublicKeyBundleVerifyParams(
                                            wire[1].untrustedData
                                                .signedPublicKeyBundle),
                                         "pending")>>
                      /\ pc' = "bundle check"
                      /\ UNCHANGED <<lastCall, isSignerValid, result>>
                 ELSE /\ calls' = <<[calls[1] EXCEPT !.answer = Answer(answer)]>>
                      /\ pc' = "returned"
                      /\ result' = <<FrameMessageOf(wire[1].untrustedData,
                                                    FALSE)>>
                      /\ lastCall' = Call("getEthereumFrameMessage", NoAccount,
                                          "returned", FALSE, FALSE)
                      /\ UNCHANGED isSignerValid
       \/ /\ calls' = [calls EXCEPT ![1].answer = "threw"]
          /\ Rejected
    /\ UNCHANGED publicClient
    /\ UNCHANGED signerVars
    /\ UNCHANGED callerVars

\* the first await ends; on an answer verifyPublicKeyBundle is called and
\* issues the delegation check
ActionChecked ==
    /\ pc = "action check"
    /\ \/ LET answer == VerifyTypedData(calls[1].typedData)
          IN  /\ isFrameDataValid' = <<answer>>
              /\ calls' =
                    <<[calls[1] EXCEPT !.answer = Answer(answer)],
                      VerifyCall(BundleClient(publicClient),
                                 PublicKeyBundleVerifyParams(
                                    wire[1].untrustedData.signedPublicKeyBundle),
                                 "pending")>>
              /\ pc' = "bundle check"
              /\ UNCHANGED <<lastCall, isSignerValid, result>>
       \/ /\ calls' = [calls EXCEPT ![1].answer = "threw"]
          /\ Rejected
    /\ UNCHANGED publicClient
    /\ UNCHANGED signerVars
    /\ UNCHANGED callerVars

\* a slip: the verifier remembers the payload it accepted and refuses it
\* when it comes again
BundleCheckedOnce ==
    /\ pc = "bundle check"
    /\ \/ LET answer == VerifyTypedData(calls[2].typedData)
              seen == kept # <<>> /\ kept[1].payload = wire[1]
          IN  /\ isSignerValid' = <<answer>>
              /\ calls' = [calls EXCEPT ![2].answer = Answer(answer)]
              /\ result' = <<FrameMessageOf(
                                wire[1].untrustedData,
                                IsValid(isFrameDataValid[1], answer) /\ ~seen)>>
              /\ pc' = "returned"
              /\ lastCall' = Call("getEthereumFrameMessage", NoAccount,
                                  "returned", FALSE, FALSE)
              /\ UNCHANGED isFrameDataValid
       \/ /\ calls' = [calls EXCEPT ![2].answer = "threw"]
          /\ Rejected
    /\ UNCHANGED publicClient
    /\ UNCHANGED signerVars
    /\ UNCHANGED callerVars

\* the second await ends; on an answer the result is built and returned
BundleChecked ==
    /\ pc = "bundle check"
    /\ \/ LET answer == VerifyTypedData(calls[2].typedData)
          IN  /\ isSignerValid' = <<answer>>
              /\ calls' = [calls EXCEPT ![2].answer = Answer(answer)]
              /\ result' = <<FrameMessageOf(
                                wire[1].untrustedData,
                                IsValid(isFrameDataValid[1], answer))>>
              /\ pc' = "returned"
              /\ lastCall' = Call("getEthereumFrameMessage", NoAccount,
                                  "returned", FALSE, FALSE)
              /\ UNCHANGED isFrameDataValid
       \/ /\ calls' = [calls EXCEPT ![2].answer = "threw"]
          /\ Rejected
    /\ UNCHANGED publicClient
    /\ UNCHANGED signerVars
    /\ UNCHANGED callerVars

\* the caller takes the outcome; the server is ready for the next payload
Taken ==
    /\ pc \in {"returned", "failed"}
    /\ pc' = "idle"
    /\ publicClient' = Absent
    /\ calls' = <<>>
    /\ isFrameDataValid' = <<>>
    /\ isSignerValid' = <<>>
    /\ result' = <<>>
    /\ lastCall' = NoCall
    /\ UNCHANGED signerVars
    /\ UNCHANGED callerVars

\* the caller takes the outcome and keeps the object returned with the
\* payload it was returned for, in place of the one kept before
TakenAndKept ==
    /\ pc \in {"returned", "failed"}
    /\ pc' = "idle"
    /\ publicClient' = Absent
    /\ calls' = <<>>
    /\ isFrameDataValid' = <<>>
    /\ isSignerValid' = <<>>
    /\ result' = <<>>
    /\ lastCall' = NoCall
    /\ kept' = IF pc = "returned"
               THEN <<[payload |-> wire[1], result |-> result[1]]>>
               ELSE kept
    /\ UNCHANGED signerVars
    /\ UNCHANGED guard

----------------------------------------------------------------------------
(* isEthereumFrameActionPayload(body) *)

IsPayloadCall(body) ==
    /\ pc = "idle"
    /\ guard = <<>>
    /\ guard' = <<[body |-> body,
                   answer |-> isEthereumFrameActionPayload(body)]>>
    /\ lastCall' = Call("isEthereumFrameActionPayload", NoAccount, "returned",
                        FALSE, FALSE)
    /\ UNCHANGED signerVars
    /\ UNCHANGED verifierVars
    /\ UNCHANGED kept

\* the server asks about the payload that has arrived
IsPayloadCallOnWire ==
    /\ wire # <<>>
    /\ IsPayloadCall(AsUnknown(wire[1]))

\* the caller takes the answer
IsPayloadTaken ==
    /\ guard # <<>>
    /\ guard' = <<>>
    /\ UNCHANGED <<lastCall, kept>>
    /\ UNCHANGED signerVars
    /\ UNCHANGED verifierVars

----------------------------------------------------------------------------

\* the steps of the running getEthereumFrameMessage and of its caller
Verifying ==
    \/ \E client \in PublicClients : getEthereumFrameMessage(client)
    \/ ActionChecked
    \/ BundleChecked
    \/ Taken

Next ==
    \/ /\ Events < MaxEvents
       /\ \E b \in BundleInputs, w \in Wallets \cup {NoAccount} :
             signPublicKeyBundle(b, w)
    \/ /\ Events < MaxEvents
       /\ \E w \in Wallets \cup {NoAccount}, k \in GeneratedKeys,
             now \in DateNow :
             createSignedPublicKeyBundle(w, k, now)
    \/ /\ Events < MaxEvents
       /\ \E b \in BodyInputs, c \in ProxyAccounts \cup {NoAccount} :
             signFrameActionBody(b, c)
    \/ /\ Events < MaxEvents
       /\ \E b \in BodyInputs, c \in ProxyAccounts \cup {NoAccount} :
             createEthereumFrameRequest(b, c)
    \/ /\ Events < MaxEvents
       /\ \E f \in BodyFields : \E v \in FieldDomain(f) : TamperBody(f, v)
    \/ /\ Events < MaxEvents
       /\ \E sig \in Signatures \cup {BadSignature} : TamperSignature(sig)
    \/ /\ Events < MaxEvents
       /\ \E b \in ForgedBundles : TamperBundle(b)
    \/ Verifying

Spec == Init /\ [][Next]_vars

\* the behaviours where the payload in flight has only its signature
\* replaced, by a signature that exists or by other bytes
NextSignature ==
    \/ /\ Events < MaxSignatureEvents
       /\ \E w \in Wallets \cup {NoAccount}, k \in GeneratedKeys,
             now \in DateNow :
             createSignedPublicKeyBundle(w, k, now)
    \/ /\ Events < MaxSignatureEvents
       /\ \E b \in BodyInputs, c \in ProxyAccounts \cup {NoAccount} :
             signFrameActionBody(b, c)
    \/ /\ Events < MaxSignatureEvents
       /\ \E b \in BodyInputs, c \in ProxyAccounts \cup {NoAccount} :
             createEthereumFrameRequest(b, c)
    \/ /\ Events < MaxSignatureEvents
       /\ \E sig \in Signatures \cup {BadSignature} : TamperSignature(sig)
    \/ Verifying

SpecSignature == Init /\ [][NextSignature]_vars

\* the behaviours where payloads built under one bundle are verified again
\* and again, some with an optional field moved between omitted and its
\* sentinel, or with parts rewritten that no signature covers, and the
\* caller keeps what came back
NextReplay ==
    \/ /\ Events < MaxReplayEvents
       /\ \E k \in GeneratedKeys, now \in DateNow :
             createSignedPublicKeyBundle(WalletW1, k, now)
    \/ /\ Events < MaxReplayEvents
       /\ \E b \in BodyInputs, c \in ProxyAccounts :
             createEthereumFrameRequest(b, c)
    \/ /\ Events < MaxReplayEvents
       /\ \E f \in OptionalFields : TamperSentinel(f)
    \/ /\ Events < MaxReplayEvents
       /\ \E p \in ClientProtocols : TamperProtocol(p)
    \/ /\ Events < MaxReplayEvents
       /\ \E m \in MessageBytes : TamperTrustedData(m)
    \/ /\ Events < MaxReplayEvents
       /\ \E name \in ExtraFields : TamperExtra(name)
    \/ getEthereumFrameMessage(Absent)
    \/ ActionChecked
    \/ BundleChecked
    \/ Taken
    \/ TakenAndKept

SpecReplay == Init /\ [][NextReplay]_vars

\* a wallet that names itself as the proxy key
CrossBundles ==
    {[timestamp |-> 86400000, proxy_key_bytes |-> WalletW1]}

\* the behaviours where one key signs messages of both schemas, and a
\* signature made for one schema is put where the other is expected
NextCross ==
    \/ /\ Events < MaxCrossEvents
       /\ \E b \in CrossBundles : signPublicKeyBundle(b, WalletW1)
    \/ /\ Events < MaxCrossEvents
       /\ \E b \in BodyInputs : createEthereumFrameRequest(b, WalletW1)
    \/ /\ Events < MaxCrossEvents
       /\ \E sig \in Signatures : TamperSignature(sig)
    \/ /\ Events < MaxCrossEvents
       /\ \E sig \in Signatures :
             TamperBundle([wire[1].untrustedData.signedPublicKeyBundle
                              EXCEPT !.signature = sig])
    \/ Verifying

SpecCross == Init /\ [][NextCross]_vars

\* bundles a client may hold that no function of this module returned to
\* it in the behaviour: one the wallet signed, and one with other bytes
\* for a signature
GivenDelegations ==
    LET signedPublicKeyBundle ==
            SignedPublicKeyBundleOf(
                NewPublicKeyBundle(86400000, "key1"), WalletW1)
    IN  {Delegation(signedPublicKeyBundle, "key1", WalletW1),
         Delegation([signedPublicKeyBundle EXCEPT !.signature = BadSignature],
                    "key1", WalletW1)}

\* the behaviours where a server asks isEthereumFrameActionPayload about
\* what it received, a payload createEthereumFrameRequest returned or
\* anything else
NextGuard ==
    \/ /\ Events < MaxGuardEvents
       /\ \E b \in BodyInputs, c \in ProxyAccounts \cup {NoAccount},
             d \in GivenDelegations :
             createEthereumFrameRequestWith(b, c, d)
    \/ \E body \in GuardInputs : IsPayloadCall(body)
    \/ IsPayloadCallOnWire
    \/ IsPayloadTaken

SpecGuard == Init /\ [][NextGuard]_vars

----------------------------------------------------------------------------
(* Properties *)

SigningCalls ==
    {"signPublicKeyBundle", "createSignedPublicKeyBundle",
     "signFrameActionBody", "createEthereumFrameRequest"}

\* the seven body fields of an untrustedData, as a FrameActionBody
BodyOf(untrustedData) == [f \in BodyFields |-> untrustedData[f]]

\* the EIP-712 data of the canonical message of a body
CanonicalData(body) == HashTypedData(FrameActionBodySignParams(body)).data

\* getEthereumFrameMessage has returned for the payload that
\* createEthereumFrameRequest returned, built from the bundle that
\* createSignedPublicKeyBundle returned and signed with its private key
RoundTrip ==
    /\ pc = "returned"
    /\ wire = <<sent[1].request>>
    /\ sent[1].delegation.privateKey # "unknown"
    /\ sent[1].proxyWalletClient =
          privateKeyToAccount(sent[1].delegation.privateKey)

\* C1: a payload that went createSignedPublicKeyBundle(wallet) ->
\* createEthereumFrameRequest(body, signer of the proxy key, bundle) ->
\* getEthereumFrameMessage comes back with isValid = true and
\* requesterWalletAddress = the wallet's address.
C1_RoundTrip ==
    RoundTrip =>
        /\ result[1].isValid
        /\ result[1].requesterWalletAddress = sent[1].delegation.walletClient

C1_Witness ==
    /\ RoundTrip
    /\ result[1].isValid
    /\ result[1].requesterWalletAddress = WalletW2
    /\ sent[1].request.untrustedData.state = Absent

\* C2: whenever getEthereumFrameMessage returns isValid = true with
\* requesterWalletAddress W and proxy key P, W signed a PublicKeyBundle
\* naming P with the payload's timestamp, and P signed the canonical
\* FrameActionBody message of the payload's body fields.
C2_Authentication ==
    (pc = "returned" /\ result[1].isValid) =>
        LET untrustedData == wire[1].untrustedData
            bundle == untrustedData.signedPublicKeyBundle.public_key_bundle
            W == result[1].requesterWalletAddress
            P == bundle.proxy_key_bytes
        IN  /\ \E s \in signed :
                  /\ s.account = W
                  /\ s.typedData.primaryType = "PublicKeyBundle"
                  /\ s.typedData.message.timestamp[2] = bundle.timestamp
                  /\ s.typedData.message.proxy_key_bytes = P
            /\ \E s \in signed :
                  /\ s.account = P
                  /\ s.typedData.primaryType = "FrameActionBody"
                  /\ HashTypedData(s.typedData).data =
                        CanonicalData(BodyOf(untrustedData))

C2_Witness ==
    /\ pc = "returned"
    /\ result[1].isValid
    /\ tampers = 1

\* C3: isValid is the conjunction of the action check (the payload's
\* signature against the body message, signer proxy_key_bytes) and of
\* verifyPublicKeyBundle(signedPublicKeyBundle); one of them alone gives
\* isValid = false.
C3_BothChecks ==
    pc = "returned" =>
        LET untrustedData == wire[1].untrustedData
        IN  /\ calls[1].typedData.primaryType = "FrameActionBody"
            /\ calls[1].typedData.address =
                  untrustedData.signedPublicKeyBundle.public_key_bundle
                      .proxy_key_bytes
            /\ calls[1].typedData.signature = untrustedData.signature
            /\ HashTypedData(calls[1].typedData).data =
                  CanonicalData(BodyOf(untrustedData))
            /\ calls[2].typedData =
                  PublicKeyBundleVerifyParams(
                      untrustedData.signedPublicKeyBundle)
            /\ result[1].isValid =
                  (calls[1].answer = "true" /\ calls[2].answer = "true")

C3_Witness ==
    /\ pc = "returned"
    /\ calls[1].answer = "true"
    /\ calls[2].answer = "false"
    /\ ~result[1].isValid

\* the payload in flight carries the signature and the bundle it was sent
\* with, and getEthereumFrameMessage has returned for it
BodyRewritten ==
    /\ pc = "returned"
    /\ wire[1].untrustedData.signature = sent[1].request.untrustedData.signature
    /\ wire[1].untrustedData.signedPublicKeyBundle =
          sent[1].request.untrustedData.signedPublicKeyBundle
    /\ BodyOf(wire[1].untrustedData) # BodyOf(sent[1].request.untrustedData)

\* C4 as claimed: every rewrite of a body field after signing, a change
\* between omitted and present included, gives isValid = false.
C4_AnyRewriteInvalid == BodyRewritten => ~result[1].isValid

\* C4: a rewrite of a body field after signing that changes the field's
\* value in the canonical message (the sentinel put in for an omitted field,
\* hex strings read as bytes) gives isValid = false.
C4_CanonicalRewriteInvalid ==
    (/\ BodyRewritten
     /\ CanonicalData(BodyOf(wire[1].untrustedData)) #
           CanonicalData(BodyOf(sent[1].request.untrustedData)))
        => ~result[1].isValid

C4_Witness ==
    /\ BodyRewritten
    /\ wire[1].untrustedData.buttonIndex #
          sent[1].request.untrustedData.buttonIndex
    /\ calls[2].answer = "true"
    /\ ~result[1].isValid

\* C5: a bundle whose signature wallet W1 produced and whose wallet_address
\* names another wallet fails verifyPublicKeyBundle, and the payload that
\* carries it gets isValid = false.
C5_WalletSubstituted ==
    (/\ pc = "returned"
     /\ \E s \in signed :
           /\ s.signature =
                 wire[1].untrustedData.signedPublicKeyBundle.signature
           /\ s.account #
                 wire[1].untrustedData.signedPublicKeyBundle.wallet_address)
        => /\ isSignerValid = <<FALSE>>
           /\ ~result[1].isValid

C5_Witness ==
    /\ pc = "returned"
    /\ wire[1].untrustedData.signedPublicKeyBundle.signature =
          SignTypedData(WalletW1,
              PublicKeyBundleSignParams(
                  wire[1].untrustedData.signedPublicKeyBundle
                      .public_key_bundle))
    /\ wire[1].untrustedData.signedPublicKeyBundle.wallet_address = WalletW2
    /\ calls[1].answer = "true"
    /\ isSignerValid = <<FALSE>>
    /\ ~result[1].isValid

\* the payload in flight is the one that was sent but for its signature,
\* and getEthereumFrameMessage has returned for it
SignatureReplaced ==
    /\ pc = "returned"
    /\ wire[1].untrustedData.signature # sent[1].request.untrustedData.signature
    /\ wire[1].untrustedData =
          [sent[1].request.untrustedData EXCEPT
              !.signature = wire[1].untrustedData.signature]

\* C6 as claimed: whatever payload createEthereumFrameRequest returned, a
\* different value in untrustedData.signature gives isValid = false.
C6_AnyReplacementInvalid == SignatureReplaced => ~result[1].isValid

\* C6: when createEthereumFrameRequest was called with the signer of the
\* proxy key the bundle names, a different value in untrustedData.signature
\* gives isValid = false.
C6_ReplacementInvalid ==
    (/\ SignatureReplaced
     /\ sent[1].proxyWalletClient =
           sent[1].request.untrustedData.signedPublicKeyBundle
               .public_key_bundle.proxy_key_bytes)
        => ~result[1].isValid

C6_Witness ==
    /\ SignatureReplaced
    /\ sent[1].proxyWalletClient =
          sent[1].request.untrustedData.signedPublicKeyBundle
              .public_key_bundle.proxy_key_bytes
    /\ wire[1].untrustedData.signature \in Signatures
    /\ wire[1].untrustedData.signature.hash.primaryType = "FrameActionBody"
    /\ isSignerValid = <<TRUE>>
    /\ ~result[1].isValid

\* C7: a verifyTypedData call that throws, in the action check or in the
\* delegation check, makes getEthereumFrameMessage fail: it returns no
\* result, and verifyPublicKeyBundle returns no boolean.
C7_FailuresPropagate ==
    /\ (\E i \in DOMAIN calls : calls[i].answer = "threw") =>
          /\ pc = "failed"
          /\ result = <<>>
          /\ lastCall.outcome = "verifier failed"
    /\ (Len(calls) = 2 /\ calls[2].answer = "threw") => isSignerValid = <<>>
    /\ pc = "returned" =>
          \A i \in DOMAIN calls : calls[i].answer \in {"true", "false"}

C7_Witness ==
    /\ pc = "failed"
    /\ Len(calls) = 2
    /\ calls[1].answer = "true"
    /\ calls[2].answer = "threw"
    /\ result = <<>>

\* C8: each of the four signing functions, called with a signer without
\* account, fails before signTypedData is invoked and before a private key
\* is generated, and returns no signature, bundle or payload.
C8_NoAccountFailsFirst ==
    [][(lastCall'.name \in SigningCalls /\ lastCall'.account = NoAccount) =>
          /\ lastCall'.outcome = "no account"
          /\ ~lastCall'.signInvoked
          /\ ~lastCall'.keyGenerated
          /\ UNCHANGED <<signed, held, wire, sent>>]_vars

C8_Witness ==
    /\ lastCall.name = "createSignedPublicKeyBundle"
    /\ lastCall.account = NoAccount
    /\ lastCall.outcome = "no account"
    /\ ~lastCall.keyGenerated

\* C9 as claimed: with a client supplied, both verification calls are issued
\* on it, and a client is constructed only when none is supplied.
C9_SuppliedClientUsed ==
    publicClient = "supplied" =>
        \A i \in DOMAIN calls : calls[i].client = "supplied"

\* C10: the result's transactionId is never the zero hash and its address
\* never the zero address: omitted or zero comes back undefined, every other
\* value unchanged.
C10_NoZeroSentinel ==
    pc = "returned" =>
        LET untrustedData == wire[1].untrustedData
        IN  /\ result[1].transactionId # zeroHash
            /\ result[1].address # zeroAddress
            /\ result[1].transactionId =
                  IF untrustedData.transactionId \in {Absent, zeroHash}
                  THEN Absent ELSE untrustedData.transactionId
            /\ result[1].address =
                  IF untrustedData.address \in {Absent, zeroAddress}
                  THEN Absent ELSE untrustedData.address

C10_Witness ==
    /\ pc = "returned"
    /\ wire[1].untrustedData.transactionId = Absent
    /\ wire[1].untrustedData.address = zeroAddress
    /\ result[1].transactionId = Absent
    /\ result[1].address = Absent

\* getEthereumFrameMessage has returned for the payload in flight, and the
\* caller has kept what it returned for a payload before
Compared == pc = "returned" /\ kept # <<>>

\* payloads p and q are the same but for field f, omitted in one and the
\* value ?? puts in for it in the other
SentinelSiblings(p, q, f) ==
    /\ {p.untrustedData[f], q.untrustedData[f]} = {Absent, Sentinel(f)}
    /\ Absent # Sentinel(f)
    /\ q = [p EXCEPT !.untrustedData[f] = q.untrustedData[f]]

\* C11 as claimed: of two payloads that differ in one optional field only,
\* omitted in one and its sentinel in the other, both get the same isValid
\* and both results have the field absent.
C11_SentinelAbsentInResult ==
    Compared =>
        \A f \in OptionalFields :
            SentinelSiblings(kept[1].payload, wire[1], f) =>
                /\ result[1].isValid = kept[1].result.isValid
                /\ result[1][f] = Absent
                /\ kept[1].result[f] = Absent

\* C11: of two payloads that differ in one optional field only, omitted in
\* one and its sentinel in the other, both get the same isValid; both
\* results have transactionId or address absent, and each result has
\* inputText or state as its payload had it, omitted or the empty string.
C11_SentinelSameVerdict ==
    Compared =>
        \A f \in OptionalFields :
            SentinelSiblings(kept[1].payload, wire[1], f) =>
                /\ result[1].isValid = kept[1].result.isValid
                /\ f \in {"transactionId", "address"} =>
                      /\ result[1][f] = Absent
                      /\ kept[1].result[f] = Absent
                /\ f \in {"inputText", "state"} =>
                      /\ result[1][f] = wire[1].untrustedData[f]
                      /\ kept[1].result[f] = kept[1].payload.untrustedData[f]

C11_Witness ==
    /\ Compared
    /\ SentinelSiblings(kept[1].payload, wire[1], "inputText")
    /\ kept[1].payload.untrustedData.inputText = Absent
    /\ kept[1].result.isValid
    /\ result[1].isValid
    /\ result[1].inputText = ""

\* a value that is an object and not null
NonNullObject(v) == v.kind \in {"object", "array"}

\* C12: isEthereumFrameActionPayload(body) is true exactly when body is a
\* non-null object that has clientProtocol, untrustedData and trustedData,
\* clientProtocol is the string "eth@v1", and untrustedData and trustedData
\* are non-null objects.
C12_GuardExact ==
    guard # <<>> =>
        LET body == guard[1].body
        IN  guard[1].answer =
               /\ NonNullObject(body)
               /\ {"clientProtocol", "untrustedData", "trustedData"}
                      \subseteq DOMAIN body.value
               /\ body.value.clientProtocol.kind = "string"
               /\ body.value.clientProtocol.value = "eth@v1"
               /\ NonNullObject(body.value.untrustedData)
               /\ NonNullObject(body.value.trustedData)

C12_Witness ==
    /\ guard # <<>>
    /\ ~guard[1].answer
    /\ guard[1].body.kind = "object"
    /\ DOMAIN guard[1].body.value =
          {"clientProtocol", "untrustedData", "trustedData"}
    /\ guard[1].body.value.clientProtocol.value = "eth@v2"
    /\ guard[1].body.value.untrustedData.kind = "object"
    /\ guard[1].body.value.trustedData.kind = "array"

\* C13: the message signFrameActionBody signed for a body and the message
\* getEthereumFrameMessage rebuilds from a payload carrying that body are
\* the same FrameActionBody typed data (the seven fields of the schema,
\* omitted optional fields replaced by the same sentinels), and the message
\* signPublicKeyBundle signed for a bundle and the message
\* verifyPublicKeyBundle rebuilds from the signed bundle are the same
\* PublicKeyBundle typed data.
C13_SameCanonicalMessage ==
    /\ (/\ Len(calls) >= 1
        /\ sent # <<>>
        /\ BodyOf(wire[1].untrustedData) = sent[1].body) =>
          \E s \in signed :
              /\ s.account = sent[1].proxyWalletClient
              /\ s.typedData = FrameActionBodySignParams(sent[1].body)
              /\ HashTypedData(s.typedData) = HashTypedData(calls[1].typedData)
    /\ Len(calls) = 2 =>
          \A s \in signed :
              s.typedData =
                  PublicKeyBundleSignParams(
                      wire[1].untrustedData.signedPublicKeyBundle
                          .public_key_bundle)
              => HashTypedData(s.typedData) = HashTypedData(calls[2].typedData)

C13_Witness ==
    /\ pc = "returned"
    /\ wire = <<sent[1].request>>
    /\ sent[1].body.state = Absent
    /\ sent[1].body.transactionId = Absent
    /\ calls[1].typedData.message.state = ""
    /\ calls[1].typedData.message.transaction_id = zeroHash
    /\ \E s \in signed :
          /\ s.typedData = FrameActionBodySignParams(sent[1].body)
          /\ s.typedData.message # calls[1].typedData.message
          /\ HashTypedData(s.typedData) = HashTypedData(calls[1].typedData)
    /\ \E s \in signed :
          /\ s.typedData.primaryType = "PublicKeyBundle"
          /\ HashTypedData(s.typedData) = HashTypedData(calls[2].typedData)

\* the schema a signature that exists was made for
SignedAs(signature, primaryType) ==
    \E s \in signed :
        s.signature = signature /\ s.typedData.primaryType = primaryType

\* C14: a signature signPublicKeyBundle produced is never accepted as
\* untrustedData.signature by the action check, and a signature
\* signFrameActionBody produced is never accepted by verifyPublicKeyBundle,
\* also when the key the check names produced it; the payload gets
\* isValid = false.
C14_CrossSchemaRejected ==
    /\ (/\ Len(calls) >= 1
        /\ SignedAs(wire[1].untrustedData.signature, "PublicKeyBundle")) =>
          /\ calls[1].answer # "true"
          /\ pc = "returned" => ~result[1].isValid
    /\ (/\ Len(calls) = 2
        /\ SignedAs(wire[1].untrustedData.signedPublicKeyBundle.signature,
                    "FrameActionBody")) =>
          /\ calls[2].answer # "true"
          /\ pc = "returned" => ~result[1].isValid

C14_Witness ==
    /\ pc = "returned"
    /\ SignedAs(wire[1].untrustedData.signature, "PublicKeyBundle")
    /\ wire[1].untrustedData.signature.signer =
          HexToBytes(wire[1].untrustedData.signedPublicKeyBundle
                        .public_key_bundle.proxy_key_bytes)
    /\ calls[1].answer = "false"
    /\ calls[2].answer = "true"
    /\ ~result[1].isValid

\* a FrameActionBody signature of the wallet stands in the bundle
C14_WitnessBundle ==
    /\ pc = "returned"
    /\ SignedAs(wire[1].untrustedData.signedPublicKeyBundle.signature,
                "FrameActionBody")
    /\ wire[1].untrustedData.signedPublicKeyBundle.signature.signer =
          HexToBytes(wire[1].untrustedData.signedPublicKeyBundle.wallet_address)
    /\ calls[1].answer = "true"
    /\ calls[2].answer = "false"

\* C15: the payload createEthereumFrameRequest returned has clientProtocol
\* "eth@v1", trustedData.messageBytes "0x", and in untrustedData the body
\* fields as given, the signature signFrameActionBody made for that body
\* with the given signer, and the given bundle as it was, whether or not
\* the bundle is validly signed or names the signer; and
\* isEthereumFrameActionPayload is true of it.
C15_RequestShape ==
    sent # <<>> =>
        LET request == sent[1].request
            untrustedData == request.untrustedData
        IN  /\ request.clientProtocol = "eth@v1"
            /\ request.trustedData = [messageBytes |-> "0x"]
            /\ DOMAIN request =
                  {"clientProtocol", "untrustedData", "trustedData"}
            /\ DOMAIN untrustedData =
                  BodyFields \cup {"signature", "signedPublicKeyBundle"}
            /\ BodyOf(untrustedData) = sent[1].body
            /\ \E s \in signed :
                  /\ s.account = sent[1].proxyWalletClient
                  /\ s.typedData = FrameActionBodySignParams(sent[1].body)
                  /\ s.signature = untrustedData.signature
            /\ untrustedData.signedPublicKeyBundle =
                  sent[1].delegation.signedPublicKeyBundle
            /\ isEthereumFrameActionPayload(AsUnknown(request))
            /\ (guard # <<>> /\ guard[1].body = AsUnknown(request)) =>
                  guard[1].answer

C15_Witness ==
    /\ sent # <<>>
    /\ wire = <<sent[1].request>>
    /\ sent[1].delegation.signedPublicKeyBundle.signature = BadSignature
    /\ sent[1].proxyWalletClient #
          sent[1].delegation.signedPublicKeyBundle.public_key_bundle
              .proxy_key_bytes
    /\ sent[1].body.inputText = Absent
    /\ guard # <<>>
    /\ guard[1].body = AsUnknown(sent[1].request)
    /\ guard[1].answer

\* C16: when getEthereumFrameMessage returns a result, it has issued one
\* action check and then one delegation check and both have answered; the
\* delegation check is issued whatever boolean the action check answered;
\* no result exists while a check is pending; isValid is the conjunction
\* of the two answers, whichever came first.
C16_BothAwaited ==
    /\ pc = "returned" =>
          /\ Len(calls) = 2
          /\ calls[1].typedData.primaryType = "FrameActionBody"
          /\ calls[2].typedData.primaryType = "PublicKeyBundle"
          /\ \A i \in {1, 2} : calls[i].answer \in {"true", "false"}
          /\ isFrameDataValid = <<calls[1].answer = "true">>
          /\ isSignerValid = <<calls[2].answer = "true">>
          /\ result[1].isValid =
                (calls[2].answer = "true" /\ calls[1].answer = "true")
    /\ (Len(calls) >= 1 /\ calls[1].answer \in {"true", "false"}) =>
          /\ Len(calls) = 2
          /\ calls[2].typedData.primaryType = "PublicKeyBundle"
    /\ (\E i \in DOMAIN calls : calls[i].answer = "pending") => result = <<>>

C16_Witness ==
    /\ pc = "returned"
    /\ Len(calls) = 2
    /\ calls[1].answer = "false"
    /\ calls[2].answer = "true"
    /\ isFrameDataValid = <<FALSE>>
    /\ isSignerValid = <<TRUE>>
    /\ ~result[1].isValid

\* C17 as claimed: the bundle createSignedPublicKeyBundle built carries as
\* timestamp the time of the call in unix seconds, Date.now() being the
\* time of the call in milliseconds.
C17_TimestampUnixSeconds ==
    (/\ lastCall.name = "createSignedPublicKeyBundle"
     /\ lastCall.outcome = "returned") =>
        held[1].signedPublicKeyBundle.public_key_bundle.timestamp
            \in {now \div 1000 : now \in DateNow}

C18_WitnessAgain ==
    /\ Compared
    /\ kept[1].payload = wire[1]
    /\ kept[1].result.isValid
    /\ result[1].isValid

\* the properties the type of untrustedData declares
Declared == BodyFields \cup {"signature", "signedPublicKeyBundle"}

\* the properties getEthereumFrameMessage sets after spreading untrustedData
SetByVerifier ==
    {"transactionId", "address", "isValid", "requesterWalletAddress"}

\* what of a payload the two checks read
Covered(payload) ==
    LET untrustedData == payload.untrustedData
        bundle == untrustedData.signedPublicKeyBundle
    IN  [body |-> CanonicalData(BodyOf(untrustedData)),
         signature |-> untrustedData.signature,
         timestamp |-> bundle.public_key_bundle.timestamp,
         proxy_key_bytes |-> bundle.public_key_bundle.proxy_key_bytes,
         wallet_address |-> bundle.wallet_address,
         bundleSignature |-> bundle.signature]

\* two payloads that agree on what the checks read get the same isValid
SameVerdictWhenCovered ==
    (Compared /\ Covered(kept[1].payload) = Covered(wire[1])) =>
        result[1].isValid = kept[1].result.isValid

\* the result has the properties in `names` as untrustedData had them
CopiedUnchanged(names) ==
    \A name \in names :
        /\ name \in DOMAIN result[1]
        /\ result[1][name] = wire[1].untrustedData[name]

\* C19 as claimed: two payloads that agree on the canonical body fields, the
\* signature and the bundle's four fields get the same isValid, and every
\* additional property of untrustedData is in the result unchanged.
C19_AllExtrasCopied ==
    /\ SameVerdictWhenCovered
    /\ pc = "returned" =>
          CopiedUnchanged(DOMAIN wire[1].untrustedData \ Declared)

\* C19: two payloads that agree on the canonical body fields, the signature
\* and the bundle's four fields get the same isValid, whatever their
\* clientProtocol, trustedData and additional untrustedData properties; an
\* additional property is in the result unchanged unless its name is
\* isValid or requesterWalletAddress, where the result has the verifier's
\* own value.
C19_UncoveredPartsIgnored ==
    /\ SameVerdictWhenCovered
    /\ pc = "returned" =>
          /\ CopiedUnchanged(
                (DOMAIN wire[1].untrustedData \ Declared) \ SetByVerifier)
          /\ result[1].isValid =
                (isFrameDataValid[1] /\ isSignerValid[1])
          /\ result[1].requesterWalletAddress =
                wire[1].untrustedData.signedPublicKeyBundle.wallet_address

C19_Witness ==
    /\ Compared
    /\ Covered(kept[1].payload) = Covered(wire[1])
    /\ kept[1].payload = sent[1].request
    /\ "fid" \in DOMAIN wire[1].untrustedData
    /\ result[1].fid = 7
    /\ kept[1].result.isValid
    /\ result[1].isValid

\* the same for a payload of another protocol version
C19_WitnessProtocol ==
    /\ Compared
    /\ Covered(kept[1].payload) = Covered(wire[1])
    /\ kept[1].payload = sent[1].request
    /\ wire[1].clientProtocol = "eth@v2"
    /\ kept[1].result.isValid
    /\ result[1].isValid

\* a forged isValid among the additional properties does not reach the result
C19_WitnessForged ==
    /\ pc = "returned"
    /\ "isValid" \in DOMAIN wire[1].untrustedData
    /\ wire[1].untrustedData.isValid
    /\ ~result[1].isValid

============================================================================
